---- MODULE Spec2Model ----
(***************************************************************************)
(* PANDA service registration: the registration form (schema, submit       *)
(* handler) of src/unnamed/part_000, the older port-based form of          *)
(* src/src/components/service-registration-form.tsx, and the POST handler  *)
(* of src/src/app/api/register/route.ts.                                   *)
(*                                                                         *)
(* A JavaScript string is a sequence of one-character strings, so that     *)
(* length, trim() and the regular expressions are computed and not         *)
(* assumed.  undefined and null are the two sequences Undefined and Null,  *)
(* whose single element is longer than one character and so differs from   *)
(* every string.  A JSON object is a record; a key whose value is          *)
(* undefined is dropped when the object is serialised.                     *)
(*                                                                         *)
(* The values a submit validates are the input of the submit action: the   *)
(* user fills the form in and submits it in one step.  Four                *)
(* specifications share the actions: Spec is the whole system (a form, the *)
(* acceptor, other callers), SpecForm a form and the acceptor over a       *)
(* network that can fail, SpecAcceptor the acceptor alone on every kind of *)
(* body, SpecSchema the schemas and submit handlers on every value of the  *)
(* forms' types.                                                           *)
(***************************************************************************)
EXTENDS Naturals, Sequences, FiniteSets, TLC

VARIABLES
    variant,                \* which of the two forms is mounted: "url" or "port"
    form,                   \* the values of the form's fields
    errors,                 \* formState.errors: the fields with an error message
    isSubmitted,            \* formState.isSubmitted
    isSubmitting,           \* formState.isSubmitting: the submit handler is running
    registeredServiceInfo,  \* the record displayed: empty (null) or one record
    toast,                  \* the notification shown last: empty or one toast
    inflight,               \* the requests sent and not yet taken up by the acceptor
    reply,                  \* the response on its way to the form: empty or one
    last,                   \* the call the acceptor handled last: empty or one
    registered,             \* id and token of every record the acceptor constructed
    tokens,                 \* the tokens the form generated
    sent,                   \* the values and the payload of every request the form sent
    uuidCount,              \* the draws of the identifier generators so far
    posts,                  \* the requests the form sent
    calls                   \* the requests sent by anyone

vars == <<variant, form, errors, isSubmitted, isSubmitting, registeredServiceInfo, toast,
          inflight, reply, last, registered, tokens, sent, uuidCount, posts, calls>>

-----------------------------------------------------------------------------
(* JavaScript values *)

Undefined == <<"undefined">>
Null == <<"null">>

IsString(v) == v # Undefined /\ v # Null

\* !v is false: v is neither undefined, null nor the empty string
Truthy(v) == v # Undefined /\ v # Null /\ v # <<>>

Lower == {"a", "b", "c", "d", "e", "f", "g", "h", "i", "j", "k", "l", "m",
          "n", "o", "p", "q", "r", "s", "t", "u", "v", "w", "x", "y", "z"}
Upper == {"A", "B", "C", "D", "E", "F", "G", "H", "I", "J", "K", "L", "M",
          "N", "O", "P", "Q", "R", "S", "T", "U", "V", "W", "X", "Y", "Z"}
Digit == {"0", "1", "2", "3", "4", "5", "6", "7", "8", "9"}
Alpha == Lower \cup Upper
\* the character class [a-zA-Z0-9-]
LabelChar == Alpha \cup Digit \cup {"-"}
Whitespace == {" ", "\t", "\n"}

RECURSIVE TrimStart(_)
TrimStart(s) == IF s # <<>> /\ Head(s) \in Whitespace THEN TrimStart(Tail(s)) ELSE s

RECURSIVE TrimEnd(_)
TrimEnd(s) ==
    IF s # <<>> /\ s[Len(s)] \in Whitespace THEN TrimEnd(SubSeq(s, 1, Len(s) - 1)) ELSE s

\* String.prototype.trim
Trim(s) == TrimEnd(TrimStart(s))

\* the string of n copies of one character
Repeat(c, n) == [i \in 1..n |-> c]

-----------------------------------------------------------------------------
(* The domain patterns *)

Suffixes == { <<"p", "a", "n", "d", "a">>, <<"p", "i", "n", "o", "u">>,
              <<"p", "i", "k", "a">>, <<"n", "i", "n", "a", "r">>,
              <<"n", "a", "t", "i", "o", "n">> }

\* the positions after one or more characters of the class cls, read from i
RunEnds(s, i, cls) ==
    { j \in (i + 1)..(Len(s) + 1) : \A k \in i..(j - 1) : s[k] \in cls }

\* the positions the group (?:\.[a-zA-Z0-9-]+)* can reach from the set P
RECURSIVE LabelGroupStar(_, _)
LabelGroupStar(s, P) ==
    LET more == UNION { IF p <= Len(s) /\ s[p] = "." THEN RunEnds(s, p + 1, LabelChar) ELSE {}
                        : p \in P }
    IN IF more \subseteq P THEN P ELSE LabelGroupStar(s, P \cup more)

\* the pattern without its list of suffixes: any label may end the domain
PandaDomainRegexAnySuffix(val) ==
    \E p \in LabelGroupStar(val, RunEnds(val, 1, LabelChar)) :
        /\ p <= Len(val)
        /\ val[p] = "."
        /\ (Len(val) + 1) \in RunEnds(val, p + 1, LabelChar)

\* /^[a-zA-Z0-9-]+(?:\.[a-zA-Z0-9-]+)*\.(panda|pinou|pika|ninar|nation)$/.test(val)
PandaDomainRegex(val) ==
    \E p \in LabelGroupStar(val, RunEnds(val, 1, LabelChar)) :
        /\ p <= Len(val)
        /\ val[p] = "."
        /\ SubSeq(val, p + 1, Len(val)) \in Suffixes

\* /^[a-zA-Z0-9.-]+\.[a-zA-Z]{2,}$/.test(val)
AnyTldRegex(val) ==
    \E p \in RunEnds(val, 1, LabelChar \cup {"."}) :
        /\ p <= Len(val)
        /\ val[p] = "."
        /\ Len(val) - p >= 2
        /\ \A k \in (p + 1)..Len(val) : val[k] \in Alpha

-----------------------------------------------------------------------------
(* new URL(val), as far as the inputs below need it: a scheme, and for the *)
(* special schemes a host that is not empty                                *)

SpecialSchemes == { <<"h", "t", "t", "p">>, <<"h", "t", "t", "p", "s">>,
                    <<"w", "s">>, <<"w", "s", "s">>, <<"f", "t", "p">> }

\* the index of the first character of s, from i on, that is in cls; Len(s)+1 if none
RECURSIVE FirstIn(_, _, _)
FirstIn(s, i, cls) ==
    IF i > Len(s) THEN Len(s) + 1
    ELSE IF s[i] \in cls THEN i ELSE FirstIn(s, i + 1, cls)

\* the index of the first character of s, from i on, that is not in cls
RECURSIVE FirstNotIn(_, _, _)
FirstNotIn(s, i, cls) ==
    IF i > Len(s) THEN Len(s) + 1
    ELSE IF s[i] \notin cls THEN i ELSE FirstNotIn(s, i + 1, cls)

ParsesAsURL(val) ==
    LET s == Trim(val)
        colon == FirstIn(s, 1, {":"})
        scheme == SubSeq(s, 1, colon - 1)
        hostStart == FirstNotIn(s, colon + 1, {"/", "\\"})
        hostEnd == FirstIn(s, hostStart, {"/", "\\", "?", "#"})
        host == SubSeq(s, hostStart, hostEnd - 1)
    IN /\ colon <= Len(s)
       /\ scheme # <<>>
       /\ scheme[1] \in Alpha
       /\ \A k \in 2..Len(scheme) : scheme[k] \in Alpha \cup Digit \cup {"+", "-", "."}
       /\ scheme \in SpecialSchemes =>
              /\ host # <<>>
              /\ \A k \in 1..Len(host) : host[k] \notin Whitespace

-----------------------------------------------------------------------------
(* The schema of the registration form: zod reports a field as dirty when  *)
(* a check of it fails and as aborted when its type is wrong; an object    *)
(* with an aborted field is aborted, and the refinements of an aborted     *)
(* value do not run.                                                       *)

NameMin == 3
DescriptionMin == 10
DescriptionMax == 200
CustomTypeMin == 2
PortMin == 1
PortMax == 65535

Website == <<"w", "e", "b", "s", "i", "t", "e">>
Api == <<"a", "p", "i">>
Game == <<"g", "a", "m", "e">>
Other == <<"o", "t", "h", "e", "r">>

Worst(S) == IF "aborted" \in S THEN "aborted" ELSE IF "dirty" \in S THEN "dirty" ELSE "valid"

\* z.string() followed by checks: check is whether every check passes
ZodString(v, check) == IF ~IsString(v) THEN "aborted" ELSE IF check THEN "valid" ELSE "dirty"

\* z.enum(values)
ZodEnum(v, values) == IF v \in values THEN "valid" ELSE "aborted"

\* the refinement of domain: an empty or blank value is not checked
DomainRefine(val) ==
    IF ~Truthy(val) \/ Trim(val) = <<>> THEN TRUE ELSE PandaDomainRegex(val)

\* the status of each field of z.object({...})
FieldStatus(data) ==
    [ name |-> ZodString(data.name, Len(data.name) >= NameMin),
      description |-> ZodString(data.description,
                         Len(data.description) >= DescriptionMin
                         /\ Len(data.description) <= DescriptionMax),
      local_url |-> ZodString(data.local_url, ParsesAsURL(data.local_url)),
      domain |-> IF data.domain = Undefined THEN "valid"
                 ELSE ZodString(data.domain, DomainRefine(data.domain)),
      type |-> ZodEnum(data.type, {Website, Api, Game, Other}),
      customType |-> IF data.customType = Undefined THEN "valid"
                     ELSE ZodString(data.customType, TRUE),
      publicUrl |-> ZodString(data.publicUrl, ParsesAsURL(data.publicUrl)) ]

\* superRefine measuring customType without trimming it
SuperRefineUntrimmed(data) ==
    IF data.type = Other
       /\ (~Truthy(data.customType) \/ Len(data.customType) < CustomTypeMin)
    THEN {"customType"} ELSE {}

\* the issue superRefine adds: customType is required when type is other
SuperRefine(data) ==
    IF data.type = Other
       /\ (~Truthy(data.customType) \/ Len(Trim(data.customType)) < CustomTypeMin)
    THEN {"customType"} ELSE {}

\* a resolver that stops at the first field that fails
FirstIssueOnly(data) ==
    LET st == FieldStatus(data)
        order == <<"name", "description", "local_url", "domain", "type", "customType",
                   "publicUrl">>
        bad == { i \in 1..Len(order) : st[order[i]] # "valid" }
    IN IF bad # {} THEN { order[CHOOSE i \in bad : \A j \in bad : i <= j] }
       ELSE SuperRefine(data)

\* the fields serviceSchema reports: every field that is not valid, and the
\* issue of superRefine unless the object is aborted
serviceSchemaIssues(data) ==
    LET st == FieldStatus(data)
    IN { f \in DOMAIN st : st[f] # "valid" }
       \cup (IF Worst({ st[f] : f \in DOMAIN st }) # "aborted" THEN SuperRefine(data) ELSE {})

\* .transform(val => val === "" ? undefined : val)
DomainTransform(val) == IF val = <<>> THEN Undefined ELSE val

\* the value serviceSchema parses to
serviceSchemaData(data) == [data EXCEPT !.domain = DomainTransform(@)]

\* the decimal value of a string of digits
RECURSIVE DigitsValue(_)
DigitsValue(s) ==
    IF s = <<>> THEN 0
    ELSE 10 * DigitsValue(SubSeq(s, 1, Len(s) - 1))
         + (CHOOSE n \in 0..9 : ToString(n) = s[Len(s)])

\* z.coerce.number().min(1).max(65535): Number("") is 0, Number of a text is NaN
ZodPort(v) ==
    IF \E k \in 1..Len(v) : v[k] \notin Digit THEN "aborted"
    ELSE IF DigitsValue(v) >= PortMin /\ DigitsValue(v) <= PortMax THEN "valid" ELSE "dirty"

\* the refinement of domain in the port-based form
PortDomainRefine(val) == ~Truthy(val) \/ AnyTldRegex(val)

\* the fields the schema of the port-based form reports
portSchemaIssues(data) ==
    LET st == [ name |-> ZodString(data.name, Len(data.name) >= NameMin),
                description |-> ZodString(data.description,
                                   Len(data.description) >= DescriptionMin
                                   /\ Len(data.description) <= DescriptionMax),
                port |-> ZodPort(data.port),
                domain |-> IF data.domain = Undefined THEN "valid"
                           ELSE ZodString(data.domain, PortDomainRefine(data.domain)),
                type |-> ZodEnum(data.type, {Website, Api, Game}),
                publicUrl |-> ZodString(data.publicUrl, ParsesAsURL(data.publicUrl)) ]
    IN { f \in DOMAIN st : st[f] # "valid" }

\* the decimal digits of a number
RECURSIVE NumberDigits(_)
NumberDigits(n) ==
    IF n < 10 THEN <<ToString(n)>> ELSE Append(NumberDigits(n \div 10), ToString(n % 10))

\* the value the schema of the port-based form parses to: port is coerced to
\* a number, written here by its digits
portSchemaData(data) == [data EXCEPT !.port = NumberDigits(DigitsValue(@))]

-----------------------------------------------------------------------------
(* Bounds and inputs *)

\* the requests sent in a run, by the form and by direct callers together
MaxCalls == 2
\* the instants new Date() can read
MaxTime == 2

GoodName == <<"a", "b", "c">>
GoodDescription == Repeat("d", DescriptionMin)
GoodLocalUrl == <<"h", "t", "t", "p", ":", "/", "/", "h", ":", "3", "0", "0", "0">>
GoodPublicUrl == <<"h", "t", "t", "p", "s", ":", "/", "/", "t", ".", "i", "o">>
GoodDomain == <<"m", "y", "a", "p", "p", ".", "p", "a", "n", "d", "a">>

NameInputs == { <<>>, <<"a", "b">>, GoodName }
DescriptionInputs == { <<>>, Repeat("d", DescriptionMin - 1), GoodDescription,
                       Repeat("d", DescriptionMax), Repeat("d", DescriptionMax + 1) }
UrlInputs == { <<>>, <<"3", "0", "0", "0">>, <<"h", "t", "t", "p", ":", "/", "/">>, <<"h", ":", "3", "0", "0", "0">>, GoodLocalUrl, GoodPublicUrl }
DomainInputs == { <<>>, <<" ">>, <<" ", " ">>, GoodDomain, <<"a", "p", "p", ".", "m", "y", "-", "s", "v", "c", ".", "p", "i", "n", "o", "u">>, <<"a", ".", "p", "i", "k", "a">>, <<"a", ".", "n", "i", "n", "a", "r">>,
                  <<"a", ".", "n", "a", "t", "i", "o", "n">>,
                  <<"m", "y", "a", "p", "p", ".", "c", "o", "m">>, <<"s", "u", "b", ".", "d", "o", "m", "a", "i", "n", ".", "c", "o", "m">>, <<"m", "y", "a", "p", "p", ".", "p", "a", "n", "d", "a", "s">>, <<"p", "a", "n", "d", "a">>, <<".", "p", "a", "n", "d", "a">>,
                  <<"m", "y", " ", "a", "p", "p", ".", "p", "a", "n", "d", "a">>, <<" ", "a", ".", "p", "a", "n", "d", "a">>, <<"a", ".", ".", "p", "a", "n", "d", "a">>, <<"a", ".", "P", "A", "N", "D", "A">> }
CustomTypeInputs == { <<>>, <<"a">>, <<" ", "a", " ">>, <<" ", " ">>, <<"d", "b">>, <<" ", "d", "b", " ">>, Other }
PortInputs == { <<>>, <<"0">>, <<"8", "0">>, <<"3", "0", "0", "0">>, <<"6", "5", "5", "3", "6">>, <<"a", "b", "c">> }

\* defaultValues of useForm
Defaults ==
    [ name |-> <<>>, description |-> <<>>, local_url |-> <<>>, domain |-> <<>>,
      type |-> Undefined, customType |-> <<>>, publicUrl |-> <<>> ]

\* defaultValues of useForm in the port-based form
PortDefaults ==
    [ name |-> <<>>, description |-> <<>>, port |-> <<"3", "0", "0", "0">>, domain |-> <<>>,
      type |-> Undefined, publicUrl |-> <<>> ]

GoodValues ==
    [ name |-> GoodName, description |-> GoodDescription, local_url |-> GoodLocalUrl,
      domain |-> GoodDomain, type |-> Website, customType |-> <<>>,
      publicUrl |-> GoodPublicUrl ]

GoodPortValues ==
    [ name |-> GoodName, description |-> GoodDescription, port |-> <<"3", "0", "0", "0">>,
      domain |-> GoodDomain, type |-> Website, publicUrl |-> GoodPublicUrl ]

\* Values of the type ServiceFormValues: every combination of a failing and
\* a passing value per field, every input of each field in otherwise good
\* values, a customType beside each type, and optional fields left undefined.
\* The form itself never holds a customType beside a fixed type: the effect
\* that watches type clears it.
TypedInputs ==
    { [ name |-> n, description |-> de, local_url |-> l, domain |-> do,
        type |-> tc[1], customType |-> tc[2], publicUrl |-> pu ] :
        n \in { <<"a", "b">>, GoodName },
        de \in { Repeat("d", DescriptionMin - 1), GoodDescription },
        l \in { <<"3", "0", "0", "0">>, GoodLocalUrl },
        do \in { <<"m", "y", "a", "p", "p", ".", "c", "o", "m">>, GoodDomain },
        tc \in { <<Other, <<"a">>>>, <<Website, <<>>>>, <<Undefined, <<>>>> },
        pu \in { <<"t", ".", "i", "o">>, GoodPublicUrl } }
    \cup { [GoodValues EXCEPT !.name = x] : x \in NameInputs }
    \cup { [GoodValues EXCEPT !.description = x] : x \in DescriptionInputs }
    \cup { [GoodValues EXCEPT !.local_url = x] : x \in UrlInputs }
    \cup { [GoodValues EXCEPT !.publicUrl = x] : x \in UrlInputs }
    \cup { [GoodValues EXCEPT !.domain = x] : x \in DomainInputs \cup { Undefined } }
    \cup { [GoodValues EXCEPT !.type = ty, !.customType = x] :
             ty \in { Undefined, Website, Api, Game, Other },
             x \in CustomTypeInputs \cup { Undefined } }
    \cup { Defaults }

\* Values of the port-based form.
TypedPortInputs ==
    { [GoodPortValues EXCEPT !.domain = x] : x \in DomainInputs \cup { Undefined } }
    \cup { [GoodPortValues EXCEPT !.port = x] : x \in PortInputs }
    \cup { [GoodPortValues EXCEPT !.name = x] : x \in NameInputs }
    \cup { [GoodPortValues EXCEPT !.type = x] : x \in { Undefined, Api, Game, Other } }
    \cup { [GoodPortValues EXCEPT !.publicUrl = x] : x \in UrlInputs }
    \cup { PortDefaults }

\* The values a user enters in a run of the whole system.
FormInputs ==
    { Defaults, GoodValues,
      [GoodValues EXCEPT !.name = <<"a", "b">>],
      [GoodValues EXCEPT !.domain = <<>>],
      [GoodValues EXCEPT !.domain = <<" ", " ">>],
      [GoodValues EXCEPT !.domain = <<"m", "y", "a", "p", "p", ".", "c", "o", "m">>],
      [GoodValues EXCEPT !.name = <<"a", "b">>, !.domain = <<"m", "y", "a", "p", "p", ".", "c", "o", "m">>],
      [GoodValues EXCEPT !.type = Other, !.customType = <<>>],
      [GoodValues EXCEPT !.type = Other, !.customType = <<"d", "b">>],
      [GoodValues EXCEPT !.type = Other, !.customType = <<" ", "d", "b", " ">>],
      [GoodValues EXCEPT !.type = Other, !.customType = Other] }

PortFormInputs ==
    { PortDefaults, GoodPortValues,
      [GoodPortValues EXCEPT !.domain = <<>>],
      [GoodPortValues EXCEPT !.domain = <<"m", "y", "a", "p", "p", ".", "c", "o", "m">>],
      [GoodPortValues EXCEPT !.port = <<"0">>] }

-----------------------------------------------------------------------------
(* JSON and the generators *)

Get(obj, k) == IF k \in DOMAIN obj THEN obj[k] ELSE Undefined

\* JSON.stringify followed by the receiver's parse: keys that are undefined
\* are not sent
Serialize(obj) == [ k \in { x \in DOMAIN obj : obj[x] # Undefined } |-> obj[k] ]

EmptyObject == [ k \in {} |-> Undefined ]

\* a generator that returns the same identifier at every draw
UUIDConstant(n) == <<"uuid", "0">>

\* The n-th identifier the generators produce.  uuidv4() and
\* crypto.randomUUID() draw 122 random bits; the model takes the draw to be
\* fresh, i.e. different from every earlier draw.
UUID(n) == <<"uuid", ToString(n)>>

\* new Date().toISOString() at the instant t
ToISOString(t) == <<"time", ToString(t)>>

-----------------------------------------------------------------------------
(* The submit handlers of the two forms *)

finalServiceType(data) == IF data.type = Other THEN data.customType ELSE data.type

apiPayload(data, token) ==
    [ name |-> data.name,
      description |-> data.description,
      local_url |-> data.local_url,
      public_url |-> data.publicUrl,
      domain |-> IF Truthy(data.domain) THEN data.domain ELSE Undefined,
      type |-> finalServiceType(data),
      token |-> token ]

\* { ...data, token } of the port-based form
serviceDataWithToken(data, token) ==
    [ k \in DOMAIN data \cup {"token"} |-> IF k = "token" THEN token ELSE data[k] ]

\* a fetch that sends the request a second time
FetchTwice(d, payload) ==
    /\ inflight' = inflight \cup
           { [ n |-> calls + k, origin |-> "form", kind |-> "object",
               body |-> Serialize(payload) ] : k \in {1, 2} }
    /\ sent' = Append(sent, [ values |-> d, body |-> Serialize(payload) ])
    /\ posts' = posts + 2
    /\ calls' = calls + 2

\* fetch('/api/register', { method: 'POST', body: JSON.stringify(payload) })
\* of the payload built from the values d
Fetch(d, payload) ==
    /\ inflight' = inflight \cup
           { [ n |-> calls + 1, origin |-> "form", kind |-> "object",
               body |-> Serialize(payload) ] }
    /\ sent' = Append(sent, [ values |-> d, body |-> Serialize(payload) ])
    /\ posts' = posts + 1
    /\ calls' = calls + 1

\* a handleSubmit that calls the submit handler whatever the resolver reports
PassesAlways(issues) == TRUE

\* handleSubmit calls the submit handler when the resolver reports no error
PassesResolver(issues) == issues = {}

\* resolver: zodResolver(serviceSchema), as the function from the values a
\* run submits to the fields the schema reports on them
resolver == [ d \in FormInputs \cup TypedInputs |-> serviceSchemaIssues(d) ]

\* resolver: zodResolver(serviceSchema) of the port-based form
portResolver == [ d \in PortFormInputs \cup TypedPortInputs |-> portSchemaIssues(d) ]

\* form.handleSubmit(onSubmit) on the values d
handleSubmit(d) ==
    /\ ~isSubmitting
    /\ LET issues == resolver[d]
       IN IF PassesResolver(issues)
          THEN /\ calls < MaxCalls
               /\ errors' = {}
               /\ isSubmitting' = TRUE
               /\ uuidCount' = uuidCount + 1
               /\ tokens' = Append(tokens, UUID(uuidCount + 1))
               /\ Fetch(d, apiPayload(serviceSchemaData(d), UUID(uuidCount + 1)))
          ELSE /\ errors' = issues
               /\ UNCHANGED <<isSubmitting, uuidCount, tokens, sent, inflight, posts, calls>>
    /\ isSubmitted' = TRUE
    /\ UNCHANGED <<variant, registeredServiceInfo, toast, reply, last, registered>>

\* the user fills the form in with the values d and submits it
Submit(d) ==
    /\ variant = "url"
    /\ form' = d
    /\ handleSubmit(d)

\* form.handleSubmit(onSubmit) of the port-based form on the values d
handleSubmitPort(d) ==
    /\ ~isSubmitting
    /\ LET issues == portResolver[d]
       IN IF PassesResolver(issues)
          THEN /\ calls < MaxCalls
               /\ errors' = {}
               /\ isSubmitting' = TRUE
               /\ uuidCount' = uuidCount + 1
               /\ tokens' = Append(tokens, UUID(uuidCount + 1))
               /\ Fetch(d, serviceDataWithToken(portSchemaData(d), UUID(uuidCount + 1)))
          ELSE /\ errors' = issues
               /\ UNCHANGED <<isSubmitting, uuidCount, tokens, sent, inflight, posts, calls>>
    /\ isSubmitted' = TRUE
    /\ UNCHANGED <<variant, registeredServiceInfo, toast, reply, last, registered>>

\* the user fills the port-based form in with the values d and submits it
SubmitPort(d) ==
    /\ variant = "port"
    /\ form' = d
    /\ handleSubmitPort(d)

\* the submit handler reads the response
Receive ==
    /\ reply # {}
    /\ LET response == CHOOSE x \in reply : TRUE
       IN IF response.status >= 200 /\ response.status <= 299
          THEN /\ registeredServiceInfo' = { response.body }
               /\ toast' = { [ title |-> "Success!",
                               description |-> "Service registered successfully." ] }
               /\ form' = IF variant = "url" THEN Defaults ELSE PortDefaults
               /\ errors' = {}
               /\ isSubmitted' = FALSE
          ELSE /\ registeredServiceInfo' = {}
               /\ toast' = { [ title |-> "Error", description |-> response.body.message ] }
               /\ UNCHANGED <<form, errors, isSubmitted>>
    /\ reply' = {}
    /\ isSubmitting' = FALSE
    /\ UNCHANGED <<variant, inflight, last, registered, tokens, sent, uuidCount, posts, calls>>

\* the message of the TypeError a browser's fetch rejects with
FetchErrorMessages ==
    { "Failed to fetch", "NetworkError when attempting to fetch resource.", "Load failed" }

\* fetch rejects: the request is lost on its way to the acceptor, or the
\* response on its way back; the catch block of the submit handler runs
FetchRejects ==
    /\ isSubmitting
    /\ \/ /\ \E r \in inflight : r.origin = "form" /\ inflight' = inflight \ { r }
          /\ reply' = reply
       \/ /\ reply # {}
          /\ reply' = {}
          /\ inflight' = inflight
    /\ \E text \in FetchErrorMessages :
           toast' = { [ title |-> "Error", description |-> text ] }
    /\ registeredServiceInfo' = {}
    /\ isSubmitting' = FALSE
    /\ UNCHANGED <<variant, form, errors, isSubmitted, last, registered, tokens, sent,
                   uuidCount, posts, calls>>

-----------------------------------------------------------------------------
(* The acceptor: POST /api/register *)

RequiredKeys == {"name", "local_url", "type", "public_url", "token"}

MissingMessage == "Missing required fields (name, local_url, type, public_url, token)."

\* if (!body.name || !body.local_url || !body.type || !body.public_url || !body.token)
MissingRequired(body) == \E k \in RequiredKeys : ~Truthy(Get(body, k))

\* a record whose id is taken from the payload's token
registeredServiceIdFromToken(body, id, createdAt) ==
    [ id |-> Get(body, "token"),
      name |-> Get(body, "name"),
      description |-> Get(body, "description"),
      local_url |-> Get(body, "local_url"),
      public_url |-> Get(body, "public_url"),
      domain |-> Get(body, "domain"),
      type |-> Get(body, "type"),
      token |-> Get(body, "token"),
      createdAt |-> createdAt ]

\* a record built as { id, ..., createdAt, ...body }: the keys of the payload
\* come last and win
registeredServiceSpreadBody(body, id, createdAt) ==
    LET own == [ id |-> id, createdAt |-> createdAt ]
    IN [ k \in DOMAIN own \cup DOMAIN body |->
           IF k \in DOMAIN body THEN body[k] ELSE own[k] ]

\* a record that leaves the optional fields of the payload out
registeredServiceRequiredOnly(body, id, createdAt) ==
    [ id |-> id,
      name |-> Get(body, "name"),
      local_url |-> Get(body, "local_url"),
      public_url |-> Get(body, "public_url"),
      type |-> Get(body, "type"),
      token |-> Get(body, "token"),
      createdAt |-> createdAt ]

\* const registeredService: RegisteredService = { id: crypto.randomUUID(), ... }
registeredService(body, id, createdAt) ==
    [ id |-> id,
      name |-> Get(body, "name"),
      description |-> Get(body, "description"),
      local_url |-> Get(body, "local_url"),
      public_url |-> Get(body, "public_url"),
      domain |-> Get(body, "domain"),
      type |-> Get(body, "type"),
      token |-> Get(body, "token"),
      createdAt |-> createdAt ]

\* a catch block that passes the message of every Error on
errorMessageOfAnyError(error) == error.message

\* the catch block: the message of a SyntaxError is replaced, that of any
\* other Error is passed on
errorMessage(error) ==
    IF error.name = "SyntaxError" THEN "Invalid JSON payload." ELSE error.message

\* the response of the catch block
Failure(text) ==
    [ status |-> 500,
      body |-> [ message |-> "Failed to register service.", error |-> text ] ]

\* what request.json() throws on a body that is not JSON
JsonSyntaxError == [ name |-> "SyntaxError", message |-> "Unexpected end of JSON input" ]

\* what reading body.name throws when the body is the JSON value null
NullBodyError ==
    [ name |-> "TypeError", message |-> "Cannot read properties of null (reading 'name')" ]

\* the response to the request r, and the records the call constructs, when
\* the generator is at its n-th draw and the clock reads t
Respond(r, n, t) ==
    IF r.kind = "malformed"
    THEN [ resp |-> Failure(errorMessage(JsonSyntaxError)), made |-> {} ]
    ELSE IF r.kind = "null"
    THEN [ resp |-> Failure(errorMessage(NullBodyError)), made |-> {} ]
    ELSE IF MissingRequired(r.body)
    THEN [ resp |-> [ status |-> 400, body |-> [ message |-> MissingMessage ] ],
           made |-> {} ]
    ELSE LET rec == registeredService(r.body, UUID(n), ToISOString(t))
         IN [ resp |-> [ status |-> 201, body |-> Serialize(rec) ], made |-> { rec } ]

\* the handler runs to its end once request.json() has resolved: it has no
\* other await, so calls interleave only in the order they are taken up
POST(r, t) ==
    /\ r \in inflight
    /\ LET out == Respond(r, uuidCount + 1, t)
       IN /\ last' = { [ req |-> r, resp |-> out.resp, made |-> out.made ] }
          /\ uuidCount' = uuidCount + Cardinality(out.made)
          /\ registered' = IF out.made = {} THEN registered
                           ELSE LET rec == CHOOSE x \in out.made : TRUE
                                IN Append(registered, [ id |-> rec.id, token |-> rec.token ])
          /\ reply' = IF r.origin = "form" THEN { out.resp } ELSE reply
    /\ inflight' = inflight \ { r }
    /\ UNCHANGED <<variant, form, errors, isSubmitted, isSubmitting, registeredServiceInfo,
                   toast, tokens, sent, posts, calls>>

\* a caller other than the form sends a body of its own
DirectPost(kind, body) ==
    /\ calls < MaxCalls
    /\ inflight' = inflight \cup
           { [ n |-> calls + 1, origin |-> "direct", kind |-> kind, body |-> body ] }
    /\ calls' = calls + 1
    /\ UNCHANGED <<variant, form, errors, isSubmitted, isSubmitting, registeredServiceInfo,
                   toast, reply, last, registered, tokens, sent, uuidCount, posts>>

GoodBody ==
    [ name |-> GoodName, description |-> GoodDescription, local_url |-> GoodLocalUrl,
      public_url |-> GoodPublicUrl, domain |-> GoodDomain, type |-> Website,
      token |-> <<"t", "1">> ]

\* the body without the key k
Without(obj, k) == [ x \in DOMAIN obj \ {k} |-> obj[x] ]

\* a body that brings an id, a createdAt and one more key of its own
ForgedBody ==
    [ k \in DOMAIN GoodBody \cup {"id", "createdAt", "admin"} |->
        IF k \in DOMAIN GoodBody THEN GoodBody[k] ELSE <<"x">> ]

\* the bodies direct callers send as JSON objects
DirectBodies ==
    { GoodBody, EmptyObject,
      [GoodBody EXCEPT !.type = Other],
      [GoodBody EXCEPT !.description = Null],
      Without(Without(GoodBody, "description"), "domain"),
      ForgedBody }
    \cup { Without(GoodBody, k) : k \in RequiredKeys }
    \cup { [GoodBody EXCEPT ![k] = <<>>] : k \in RequiredKeys }
    \cup { [GoodBody EXCEPT !.name = Null] }

-----------------------------------------------------------------------------
(* The specifications *)

InitOf(v, values) ==
    /\ variant = v
    /\ form = values
    /\ errors = {}
    /\ isSubmitted = FALSE
    /\ isSubmitting = FALSE
    /\ registeredServiceInfo = {}
    /\ toast = {}
    /\ inflight = {}
    /\ reply = {}
    /\ last = {}
    /\ registered = <<>>
    /\ tokens = <<>>
    /\ sent = <<>>
    /\ uuidCount = 0
    /\ posts = 0
    /\ calls = 0

\* one of the two forms is mounted with its default values
Init == InitOf("url", Defaults) \/ InitOf("port", PortDefaults)

\* The bodies direct callers send in a run of the whole system.  A caller can
\* send as its token an identifier it has seen, never one not yet drawn.
SystemBodies ==
    { GoodBody, Without(GoodBody, "token"), ForgedBody }
    \cup { [GoodBody EXCEPT !.token = UUID(k)] : k \in 1..uuidCount }

Next ==
    \/ \E d \in FormInputs : Submit(d)
    \/ \E d \in PortFormInputs : SubmitPort(d)
    \/ Receive
    \/ \E r \in inflight, t \in 1..MaxTime : POST(r, t)
    \/ \E b \in SystemBodies : DirectPost("object", b)
    \/ \E k \in {"null", "malformed"} : DirectPost(k, EmptyObject)

Spec == Init /\ [][Next]_vars

\* A form and the acceptor over a network that can fail: the request or the
\* response of a submit can be lost, and fetch then rejects.
NextForm ==
    \/ \E d \in FormInputs : Submit(d)
    \/ \E d \in PortFormInputs : SubmitPort(d)
    \/ \E r \in inflight, t \in 1..MaxTime : POST(r, t)
    \/ Receive
    \/ FetchRejects

SpecForm == Init /\ [][NextForm]_vars

\* The acceptor alone, called with one body after the other.
Call(kind, body) == inflight = {} /\ DirectPost(kind, body)

NextAcceptor ==
    \/ \E b \in DirectBodies : Call("object", b)
    \/ \E k \in {"null", "malformed"} : Call(k, EmptyObject)
    \/ \E r \in inflight, t \in 1..MaxTime : POST(r, t)

SpecAcceptor == InitOf("url", Defaults) /\ [][NextAcceptor]_vars

\* The schemas and the submit handlers as functions of the form's values:
\* a form holds any value of its type and is submitted.
InitSchema ==
    \/ \E d \in TypedInputs : InitOf("url", d)
    \/ \E d \in TypedPortInputs : InitOf("port", d)

SubmitTyped == variant = "url" /\ form' = form /\ handleSubmit(form)

SubmitTypedPort == variant = "port" /\ form' = form /\ handleSubmitPort(form)

NextSchema ==
    \/ SubmitTyped
    \/ SubmitTypedPort
    \/ \E r \in inflight, t \in 1..MaxTime : POST(r, t)
    \/ Receive

SpecSchema == InitSchema /\ [][NextSchema]_vars

-----------------------------------------------------------------------------
(* What the claims speak of *)

PayloadKeys == {"name", "description", "local_url", "public_url", "domain", "type", "token"}

\* the requests of the form that the acceptor has not yet taken up
FormRequests == { r \in inflight : r.origin = "form" }

\* what the schema of the mounted form reports on the values the form holds
FormIssues == IF variant = "url" THEN serviceSchemaIssues(form) ELSE portSchemaIssues(form)

\* the parts of s between its dots
RECURSIVE SplitDots(_)
SplitDots(s) ==
    LET dot == FirstIn(s, 1, {"."})
    IN IF dot > Len(s) THEN <<s>>
       ELSE <<SubSeq(s, 1, dot - 1)>> \o SplitDots(SubSeq(s, dot + 1, Len(s)))

\* the part of s after its last dot
Suffix(s) == LET parts == SplitDots(s) IN parts[Len(parts)]

\* label(.label)*.suffix with labels of letters, digits and hyphens and a
\* suffix of the list
WhitelistedDomain(s) ==
    LET parts == SplitDots(s)
    IN /\ Len(parts) >= 2
       /\ parts[Len(parts)] \in Suffixes
       /\ \A i \in 1..(Len(parts) - 1) :
              parts[i] # <<>> /\ \A k \in 1..Len(parts[i]) : parts[i][k] \in LabelChar

\* a domain that is not empty and ends in a suffix that is not of the list
OtherSuffix(s) == IsString(s) /\ Len(SplitDots(s)) >= 2 /\ Suffix(s) \notin Suffixes

\* a domain of labels and dots that ends in a suffix of two or more letters
LetterSuffix(s) ==
    /\ IsString(s)
    /\ Len(SplitDots(s)) >= 2
    /\ Len(Suffix(s)) >= 2
    /\ \A k \in 1..Len(Suffix(s)) : Suffix(s)[k] \in Alpha
    /\ Len(s) > Len(Suffix(s)) + 1
    /\ \A k \in 1..Len(s) : s[k] \in LabelChar \cup {"."}

\* the fields of d that break the rule the data model gives them
Violations(d) ==
    { f \in {"name"} : Len(d.name) < NameMin }
    \cup { f \in {"description"} :
             Len(d.description) < DescriptionMin \/ Len(d.description) > DescriptionMax }
    \cup { f \in {"local_url"} : ~ParsesAsURL(d.local_url) }
    \cup { f \in {"domain"} :
             d.domain # Undefined /\ Trim(d.domain) # <<>> /\ ~WhitelistedDomain(d.domain) }
    \cup { f \in {"type"} : d.type \notin {Website, Api, Game, Other} }
    \cup { f \in {"customType"} :
             d.type = Other
             /\ (d.customType = Undefined \/ Len(Trim(d.customType)) < CustomTypeMin) }
    \cup { f \in {"publicUrl"} : ~ParsesAsURL(d.publicUrl) }

\* the call c was made with a body in which a required field is absent or empty
LacksRequired(c) ==
    /\ c.req.kind # "malformed"
    /\ \E k \in RequiredKeys : Get(c.req.body, k) \in { Undefined, <<>> }

\* the call c was made with an object whose required fields are all strings
\* that are not empty
HasRequired(c) ==
    /\ c.req.kind = "object"
    /\ \A k \in RequiredKeys : IsString(Get(c.req.body, k)) /\ Get(c.req.body, k) # <<>>

-----------------------------------------------------------------------------
(* The claims *)

\* C1: a call whose payload has any of name, local_url, type, public_url or
\* token absent or empty is answered 400 with the message that names the
\* required fields, and constructs no record.
C1_MissingFieldIs400 ==
    \A c \in last :
        LacksRequired(c) =>
            /\ c.resp.status = 400
            /\ c.resp.body = [ message |-> MissingMessage ]
            /\ c.made = {}

\* C2: a call whose five required fields are present and not empty is
\* answered 201 with a record that holds the seven payload fields as they
\* were submitted, an id that is not empty and a createdAt, and nothing else.
C2_AcceptedRecordEchoesPayload ==
    \A c \in last :
        HasRequired(c) =>
            /\ c.resp.status = 201
            /\ \A k \in PayloadKeys : Get(c.resp.body, k) = Get(c.req.body, k)
            /\ Truthy(Get(c.resp.body, "id"))
            /\ Truthy(Get(c.resp.body, "createdAt"))
            /\ DOMAIN c.resp.body \subseteq PayloadKeys \cup {"id", "createdAt"}

C2_Witness ==
    \E c \in last :
        /\ HasRequired(c)
        /\ c.resp.status = 201
        /\ Get(c.resp.body, "token") = <<"t", "1">>
        /\ "description" \notin DOMAIN c.req.body

\* C3: no two records the acceptor constructs carry the same id, in whatever
\* order the calls are taken up, and the id of a record is neither its token
\* nor the token of an earlier record.
C3_IdsUnique ==
    \A i, j \in 1..Len(registered) :
        /\ i # j => registered[i].id # registered[j].id
        /\ j <= i => registered[i].id # registered[j].token

C3_Witness ==
    /\ Len(registered) >= 2
    /\ registered[1].token = registered[2].token
    /\ registered[1].id # registered[2].id

\* C4: the type of a payload the form sends is never the string "other".
C4_TypeNeverOther == \A r \in FormRequests : Get(r.body, "type") # Other

\* C5: the type of the payload is serviceType itself when it is website, api
\* or game, and the trimmed customType when it is other.
C5_TypeResolution ==
    \A r \in FormRequests :
        variant = "url" =>
            Get(r.body, "type") =
                IF form.type = Other THEN Trim(form.customType) ELSE form.type

\* C6: when type is other and customType is absent or shorter than 2
\* characters after trimming, validation reports customType and nothing is
\* sent; when type is not other, customType is never reported.
C6_CustomTypeRule ==
    (variant = "url" /\ isSubmitted) =>
        /\ (form.type = Other
            /\ (form.customType = Undefined \/ Len(Trim(form.customType)) < CustomTypeMin))
           => ("customType" \in errors /\ FormRequests = {})
        /\ form.type # Other => "customType" \notin errors

C6_Witness ==
    /\ variant = "url"
    /\ isSubmitted
    /\ form.type = Other
    /\ form.customType = <<" ", "a", " ">>
    /\ "customType" \in errors

\* C7 as stated: in either form, validation accepts every whitelisted domain
\* and reports every domain that ends in another suffix.
C7_WhitelistInBothForms ==
    isSubmitted =>
        /\ (IsString(form.domain) /\ WhitelistedDomain(form.domain)) => "domain" \notin errors
        /\ OtherSuffix(form.domain) => "domain" \in errors

\* C7 as amended: both forms accept every whitelisted domain; the form with
\* local_url and customType reports every domain that ends in another suffix;
\* the port-based form accepts a domain of labels that ends in any suffix of
\* two or more letters, such as myapp.com.
C7_WhitelistInUrlForm ==
    isSubmitted =>
        /\ (IsString(form.domain) /\ WhitelistedDomain(form.domain)) => "domain" \notin errors
        /\ (variant = "url" /\ OtherSuffix(form.domain)) => "domain" \in errors
        /\ (variant = "port" /\ LetterSuffix(form.domain)) => "domain" \notin errors

C7_Witness ==
    /\ variant = "url"
    /\ isSubmitted
    /\ form.domain = <<"m", "y", "a", "p", "p", ".", "c", "o", "m">>
    /\ errors = {"domain"}

\* C8: an empty or blank domain passes validation, and the payload then sent
\* carries no domain.
C8_BlankDomainNotSent ==
    (variant = "url" /\ isSubmitted /\ IsString(form.domain) /\ Trim(form.domain) = <<>>) =>
        /\ "domain" \notin errors
        /\ \A r \in FormRequests : "domain" \notin DOMAIN r.body

\* C9: a request of the form is in flight only when validation of the values
\* submitted has succeeded; after a submit that failed validation nothing is
\* in flight, and the form has generated exactly one token per request sent.
C9_PostOnlyAfterValidation ==
    /\ \A r \in FormRequests : errors = {} /\ FormIssues = {}
    /\ (isSubmitted /\ errors # {}) => (FormRequests = {} /\ reply = {} /\ ~isSubmitting)
    /\ Len(tokens) = posts

C9_Witness ==
    /\ variant = "url"
    /\ isSubmitted
    /\ form.domain = <<"m", "y", "a", "p", "p", ".", "c", "o", "m">>
    /\ "domain" \in errors
    /\ posts = 1
    /\ Len(tokens) = 1
    /\ FormRequests = {}

\* C10: the fields validation reports are exactly the fields that break
\* their rule: no failing field hides another.
C10_AllFailingFieldsReported ==
    (variant = "url" /\ isSubmitted) => errors = Violations(form)

C10_Witness ==
    /\ variant = "url"
    /\ isSubmitted
    /\ errors = {"name", "description", "local_url", "domain", "customType", "publicUrl"}

\* C11: two requests the form sent from the same values carry payloads that
\* are equal in every field but token; the tokens of any two requests the
\* form sent differ; the token of each request is the one generated for it,
\* one per request.
C11_TokenFreshness ==
    /\ Len(tokens) = Len(sent)
    /\ \A i \in 1..Len(sent) : Get(sent[i].body, "token") = tokens[i]
    /\ \A i, j \in 1..Len(sent) :
           i # j =>
               /\ tokens[i] # tokens[j]
               /\ sent[i].values = sent[j].values =>
                      /\ DOMAIN sent[i].body = DOMAIN sent[j].body
                      /\ \A k \in DOMAIN sent[i].body \ {"token"} :
                             sent[i].body[k] = sent[j].body[k]

C11_Witness ==
    /\ Len(sent) = 2
    /\ sent[1].values = sent[2].values
    /\ sent[1].body.name = GoodName
    /\ sent[1].body.token # sent[2].body.token

\* C12: a body that is not JSON is answered 500 with the body {message,
\* error} whose error is "Invalid JSON payload."; no other failure carries
\* that text, in error or in message; every call that constructs no record
\* is answered 400 or 500 with a message that is not empty, and 201 is
\* answered only with the record constructed.
C12_InvalidJsonIsDedicated500 ==
    \A c \in last :
        /\ c.req.kind = "malformed" =>
               /\ c.resp = [ status |-> 500,
                             body |-> [ message |-> "Failed to register service.",
                                        error |-> "Invalid JSON payload." ] ]
               /\ c.made = {}
        /\ (c.req.kind # "malformed" /\ c.made = {}) =>
               /\ c.resp.body.message # "Invalid JSON payload."
               /\ "error" \in DOMAIN c.resp.body =>
                      c.resp.body.error \notin { "Invalid JSON payload.", MissingMessage }
        /\ c.made = {} =>
               /\ c.resp.status \in {400, 500}
               /\ c.resp.body.message # ""
               /\ c.resp.status = 500 => DOMAIN c.resp.body = {"message", "error"}
        /\ c.resp.status = 201 <=> c.made # {}
        /\ c.resp.status = 201 => c.resp.body \in { Serialize(rec) : rec \in c.made }

C12_Witness ==
    \E c \in last :
        /\ c.req.kind = "malformed"
        /\ c.resp.status = 500
        /\ c.resp.body.error = "Invalid JSON payload."
        /\ c.resp.body.message # MissingMessage

\* C13: the id of a returned record is the identifier the acceptor drew for
\* it, different from the id of every earlier record, and its createdAt is
\* the acceptor's reading of the clock; neither is the value the body
\* brought, and no key of the body other than the seven payload fields is
\* returned.  No payload the form sends has an id or a createdAt.
C13_IdAndCreatedAtFromAcceptor ==
    /\ \A c \in last :
           c.resp.status = 201 =>
               /\ \E k \in 1..uuidCount : c.resp.body.id = UUID(k)
               /\ \E t \in 1..MaxTime : c.resp.body.createdAt = ToISOString(t)
               /\ c.resp.body.id = registered[Len(registered)].id
               /\ \A i \in 1..(Len(registered) - 1) : registered[i].id # c.resp.body.id
               /\ c.resp.body.id # Get(c.req.body, "id")
               /\ c.resp.body.createdAt # Get(c.req.body, "createdAt")
               /\ DOMAIN c.resp.body \subseteq PayloadKeys \cup {"id", "createdAt"}
    /\ \A i \in 1..Len(sent) : DOMAIN sent[i].body \cap {"id", "createdAt"} = {}
    /\ \A r \in FormRequests : DOMAIN r.body \cap {"id", "createdAt"} = {}

C13_Witness ==
    /\ \E c \in last :
           /\ c.req.body = ForgedBody
           /\ c.resp.status = 201
           /\ c.resp.body.id = UUID(uuidCount)
           /\ "admin" \notin DOMAIN c.resp.body
    /\ Len(sent) = 1
    /\ Len(registered) = 2

\* the response has a status of the range 200-299
Ok(response) == response.status >= 200 /\ response.status <= 299

\* the default values of the mounted form
MountedDefaults == IF variant = "url" THEN Defaults ELSE PortDefaults

\* a step in which the submit handler starts, and one in which it returns
HandlerStarts == ~isSubmitting /\ isSubmitting'
HandlerReturns == isSubmitting /\ ~isSubmitting'

\* a submit that passes validation builds one payload and sends it in one
\* request; no other step of the form sends a request
OnePostPerSubmit ==
    /\ posts' # posts => (posts' = posts + 1 /\ HandlerStarts)
    /\ HandlerStarts =>
           /\ posts' = posts + 1
           /\ errors' = {}
           /\ Len(sent') = Len(sent) + 1
           /\ sent'[Len(sent')].values = form'
           /\ \E r \in FormRequests' :
                  /\ FormRequests' = FormRequests \cup { r }
                  /\ r \notin FormRequests
                  /\ r.body = sent'[Len(sent')].body
    /\ ~HandlerStarts => (FormRequests' \subseteq FormRequests /\ sent' = sent)
    /\ HandlerReturns => (FormRequests' = {} /\ reply' = {})

\* the submit ends in success: the record displayed is the body of the
\* response and the form holds its defaults
EndsInSuccess ==
    \E response \in reply :
        /\ Ok(response)
        /\ registeredServiceInfo' = { response.body }
        /\ toast' = { [ title |-> "Success!",
                        description |-> "Service registered successfully." ] }
        /\ form' = MountedDefaults

\* the submit ends in a failure the acceptor answered: the notification has
\* the message of the response, no record is displayed, the form is as entered
EndsInAnsweredFailure ==
    \E response \in reply :
        /\ ~Ok(response)
        /\ toast' = { [ title |-> "Error", description |-> response.body.message ] }
        /\ registeredServiceInfo' = {}
        /\ form' = form

\* the submit ends in a failure of the network: the notification has the
\* message fetch rejected with, no record is displayed, the form is as entered
EndsInNetworkFailure ==
    /\ \E text \in FetchErrorMessages :
           toast' = { [ title |-> "Error", description |-> text ] }
    /\ registeredServiceInfo' = {}
    /\ form' = form

\* C14 as stated: each submit that passes validation sends one request and
\* none after a failure; it ends either in success, with the record
\* displayed equal to the body of the response and the form reset, or in
\* failure, with an error notification that has the message the acceptor
\* provided, no record displayed and the form as entered.
C14_FailureShowsServerMessage ==
    [][ /\ OnePostPerSubmit
        /\ HandlerReturns => (EndsInSuccess \/ EndsInAnsweredFailure) ]_vars

\* C14 as amended: as above, but a submit that fails because fetch rejects
\* has no message of the acceptor to show: its notification has the message
\* of the rejection.
C14_OnePostAndOutcome ==
    [][ /\ OnePostPerSubmit
        /\ HandlerReturns =>
               (EndsInSuccess \/ EndsInAnsweredFailure \/ EndsInNetworkFailure) ]_vars

C14_Witness ==
    /\ variant = "url"
    /\ ~isSubmitting
    /\ posts = 2
    /\ form = GoodValues
    /\ \E n \in toast : n.title = "Error" /\ n.description \in FetchErrorMessages
    /\ registeredServiceInfo = {}
    /\ Len(registered) = 1
    /\ inflight = {}

\* C15: every payload a form sends has name, local_url, type, public_url and
\* token, none of them empty, and no request of a form is answered 400;
\* this for the form with local_url and customType and for the port-based
\* form.
C15_FormPayloadHasRequired ==
    /\ \A i \in 1..Len(sent) :
           \A k \in RequiredKeys :
               IsString(Get(sent[i].body, k)) /\ Get(sent[i].body, k) # <<>>
    /\ \A c \in last : c.req.origin = "form" => c.resp.status # 400
    /\ \A response \in reply : response.status # 400

====
